---- MODULE Spec2Model ----
(***************************************************************************)
(* A model of rust-hl7: the MLLP codec (src/src/mllp.rs), the per-         *)
(* connection loop of the MLLP server and the HL7 v2 parser                *)
(* (src/src/lib.rs).                                                       *)
(*                                                                         *)
(* Representation of byte strings.  A byte string (BytesMut, Bytes, &str,  *)
(* String) is a sequence of runs <<b, n>>: n >= 1 copies of the byte b,    *)
(* adjacent runs holding different bytes, so that two byte strings are     *)
(* equal exactly when their run sequences are equal and a buffer of        *)
(* 100,000 bytes is a value TLC can hold.  A byte is named by a string:    *)
(* "VT" is 0x0B, "FS" is 0x1C, "\r" is 0x0D, "0xFF" is the byte 0xFF and   *)
(* a printable character names itself.  The constant text of the           *)
(* acknowledgment templates is kept as one atom per delimiter-free piece   *)
(* ("RECEIVING_APP" is one atom).                                          *)
(***************************************************************************)
EXTENDS Integers, Sequences, FiniteSets, TLC

(***************************************************************************)
(* Constants of src/src/mllp.rs.                                           *)
(***************************************************************************)
MLLP_START_BLOCK == "VT"
MLLP_END_BLOCK == "FS"
MLLP_CARRIAGE_RETURN == "\r"
MAX_BUFFER == 100000

(***************************************************************************)
(* Byte strings as run sequences.                                          *)
(***************************************************************************)
Min(a, b) == IF a < b THEN a ELSE b

\* The number of bytes of s (len()).
RECURSIVE ByteLen(_)
ByteLen(s) ==
  IF s = <<>> THEN 0
  ELSE IF Len(s) = 1 THEN s[1][2]
  ELSE ByteLen(SubSeq(s, 1, Len(s) \div 2))
       + ByteLen(SubSeq(s, Len(s) \div 2 + 1, Len(s)))

\* a followed by b (extend_from_slice, push, format!), runs merged at the seam.
Cat(a, b) ==
  IF a = <<>> THEN b
  ELSE IF b = <<>> THEN a
  ELSE IF a[Len(a)][1] = b[1][1]
       THEN SubSeq(a, 1, Len(a) - 1)
            \o << <<b[1][1], a[Len(a)][2] + b[1][2]>> >>
            \o Tail(b)
       ELSE a \o b

\* The byte string of a sequence of bytes, one run per byte before merging.
RECURSIVE Str(_)
Str(chars) ==
  IF chars = <<>> THEN <<>>
  ELSE IF Len(chars) = 1 THEN << <<chars[1], 1>> >>
  ELSE Cat(Str(SubSeq(chars, 1, Len(chars) \div 2)),
           Str(SubSeq(chars, Len(chars) \div 2 + 1, Len(chars))))

\* The first k bytes of s, and s without them (the two halves of split_to(k)).
RECURSIVE Take(_, _)
Take(s, k) ==
  IF k <= 0 \/ s = <<>> THEN <<>>
  ELSE IF Len(s) = 1 THEN << <<s[1][1], Min(k, s[1][2])>> >>
  ELSE LET left == SubSeq(s, 1, Len(s) \div 2)
           right == SubSeq(s, Len(s) \div 2 + 1, Len(s))
       IN IF k <= ByteLen(left) THEN Take(left, k)
          ELSE left \o Take(right, k - ByteLen(left))

RECURSIVE Drop(_, _)
Drop(s, k) ==
  IF k <= 0 \/ s = <<>> THEN s
  ELSE IF Len(s) = 1
       THEN IF k >= s[1][2] THEN <<>> ELSE << <<s[1][1], s[1][2] - k>> >>
  ELSE LET left == SubSeq(s, 1, Len(s) \div 2)
           right == SubSeq(s, Len(s) \div 2 + 1, Len(s))
       IN IF k < ByteLen(left) THEN Drop(left, k) \o right
          ELSE Drop(right, k - ByteLen(left))

\* The bytes of s at the 0-based offsets from..to-1 (a slice s[from..to]).
Slice(s, from, to) == Take(Drop(s, from), to - from)

\* The number of bytes before run i of s.
OffsetOfRun(s, i) == ByteLen(SubSeq(s, 1, i - 1))

\* rposition in place of position: the offset of the last byte equal to byte.
PositionOfLast(s, byte) ==
  LET hits == {i \in 1..Len(s) : s[i][1] = byte} IN
  IF hits = {} THEN -1
  ELSE LET i == CHOOSE h \in hits : \A j \in hits : h >= j
       IN OffsetOfRun(s, i) + s[i][2] - 1

\* iter().position(|&b| b == byte): the 0-based offset of the first byte equal
\* to byte, or -1 for None.
Position(s, byte) ==
  LET hits == {i \in 1..Len(s) : s[i][1] = byte} IN
  IF hits = {} THEN -1
  ELSE OffsetOfRun(s, CHOOSE i \in hits : \A j \in hits : i <= j)

\* rposition in place of position: the offset of the last such window.
WindowPositionOfLast(s, first, second) ==
  LET hits == {i \in 1..(Len(s) - 1) : s[i][1] = first /\ s[i + 1][1] = second} IN
  IF hits = {} THEN -1
  ELSE LET i == CHOOSE h \in hits : \A j \in hits : h >= j
       IN OffsetOfRun(s, i) + s[i][2] - 1

\* windows(2).position(|w| w[0] == first && w[1] == second), first # second:
\* the 0-based offset of the first place where first is immediately followed by
\* second, or -1 for None.  The window lies on the last byte of a run of first
\* and the first byte of the next run.
WindowPosition(s, first, second) ==
  LET hits == {i \in 1..(Len(s) - 1) : s[i][1] = first /\ s[i + 1][1] = second} IN
  IF hits = {} THEN -1
  ELSE LET i == CHOOSE h \in hits : \A j \in hits : h <= j
       IN OffsetOfRun(s, i) + s[i][2] - 1

(***************************************************************************)
(* MllpCodec.  A decode result is [kind, payload, rest]: kind "some"       *)
(* (Ok(Some(payload))), "none" (Ok(None)) or "invalid_frame"               *)
(* (Err(InvalidFrame)); rest is the buffer the call leaves behind.         *)
(***************************************************************************)
NoBytes == <<>>

\* decode throwing away a buffer that holds no VT.
decode_dropping_noise(src) ==
  LET start_pos == Position(src, MLLP_START_BLOCK)
      src1 == IF start_pos > 0 THEN Drop(src, start_pos)
              ELSE IF start_pos < 0 /\ ByteLen(src) <= MAX_BUFFER THEN <<>>
              ELSE src
      end_pos == IF start_pos >= 0
                 THEN WindowPosition(src1, MLLP_END_BLOCK, MLLP_CARRIAGE_RETURN)
                 ELSE -1
  IN IF end_pos >= 0
     THEN [kind |-> "some",
           payload |-> Slice(src1, 1, end_pos),
           rest |-> Drop(src1, end_pos + 2)]
     ELSE IF ByteLen(src1) > MAX_BUFFER
          THEN [kind |-> "invalid_frame", payload |-> NoBytes, rest |-> src1]
          ELSE [kind |-> "none", payload |-> NoBytes, rest |-> src1]

\* MllpCodec::decode.
decode(src) ==
  LET start_pos == Position(src, MLLP_START_BLOCK)
      \* src.split_to(start_pos) when start_pos > 0
      src1 == IF start_pos > 0 THEN Drop(src, start_pos) ELSE src
      end_pos == IF start_pos >= 0
                 THEN WindowPosition(src1, MLLP_END_BLOCK, MLLP_CARRIAGE_RETURN)
                 ELSE -1
  IN IF end_pos >= 0
     THEN LET framed_message == Take(src1, end_pos + 2)
              framed1 == Drop(framed_message, 1)
              content_len == ByteLen(framed1) - 2
          IN [kind |-> "some",
              payload |-> Take(framed1, content_len),
              rest |-> Drop(src1, end_pos + 2)]
     ELSE IF ByteLen(src1) > MAX_BUFFER
          THEN [kind |-> "invalid_frame", payload |-> NoBytes, rest |-> src1]
          ELSE [kind |-> "none", payload |-> NoBytes, rest |-> src1]

\* encode with the end sequence cut short: FS, but no CR.
encode_without_cr(item, dst) ==
  Cat(Cat(Cat(dst, Str(<<MLLP_START_BLOCK>>)), item), Str(<<MLLP_END_BLOCK>>))

\* MllpCodec::encode: dst with VT, item, FS, CR appended.
encode(item, dst) ==
  Cat(Cat(Cat(dst, Str(<<MLLP_START_BLOCK>>)), item),
      Str(<<MLLP_END_BLOCK, MLLP_CARRIAGE_RETURN>>))

\* extract_mllp_message with the size check made on entry, before the bytes
\* in front of the start block are dropped.
extract_checking_size_first(buffer) ==
  LET start_pos == Position(buffer, MLLP_START_BLOCK)
      buffer1 == IF start_pos > 0 THEN Drop(buffer, start_pos) ELSE buffer
      end_pos == IF start_pos >= 0
                 THEN WindowPosition(buffer1, MLLP_END_BLOCK, MLLP_CARRIAGE_RETURN)
                 ELSE -1
  IN IF end_pos >= 0
     THEN [kind |-> "some",
           payload |-> Slice(buffer1, 1, end_pos),
           rest |-> Drop(buffer1, end_pos + 2)]
     ELSE IF ByteLen(buffer) > MAX_BUFFER
          THEN [kind |-> "invalid_frame", payload |-> NoBytes, rest |-> buffer]
          ELSE [kind |-> "none", payload |-> NoBytes, rest |-> buffer1]

\* extract_mllp_message failing at 100,000 bytes already (>= for >).
extract_bound_inclusive(buffer) ==
  LET start_pos == Position(buffer, MLLP_START_BLOCK)
      buffer1 == IF start_pos > 0 THEN Drop(buffer, start_pos) ELSE buffer
      end_pos == IF start_pos >= 0
                 THEN WindowPosition(buffer1, MLLP_END_BLOCK, MLLP_CARRIAGE_RETURN)
                 ELSE -1
  IN IF end_pos >= 0
     THEN [kind |-> "some",
           payload |-> Slice(buffer1, 1, end_pos),
           rest |-> Drop(buffer1, end_pos + 2)]
     ELSE IF ByteLen(buffer1) >= MAX_BUFFER
          THEN [kind |-> "invalid_frame", payload |-> NoBytes, rest |-> buffer1]
          ELSE [kind |-> "none", payload |-> NoBytes, rest |-> buffer1]

\* extract_mllp_message: the connection loop's own copy of the decoder.
extract_mllp_message(buffer) ==
  LET start_pos == Position(buffer, MLLP_START_BLOCK)
      \* buffer.split_to(start_pos) when start_pos > 0
      buffer1 == IF start_pos > 0 THEN Drop(buffer, start_pos) ELSE buffer
      end_pos == IF start_pos >= 0
                 THEN WindowPosition(buffer1, MLLP_END_BLOCK, MLLP_CARRIAGE_RETURN)
                 ELSE -1
  IN IF end_pos >= 0
     THEN LET framed_message == Take(buffer1, end_pos + 2)
              framed1 == Drop(framed_message, 1)
              content_len == ByteLen(framed1) - 2
          IN [kind |-> "some",
              payload |-> Take(framed1, content_len),
              rest |-> Drop(buffer1, end_pos + 2)]
     ELSE IF ByteLen(buffer1) > MAX_BUFFER
          THEN [kind |-> "invalid_frame", payload |-> NoBytes, rest |-> buffer1]
          ELSE [kind |-> "none", payload |-> NoBytes, rest |-> buffer1]

\* wrap_in_mllp: VT, the message, FS, CR.
wrap_in_mllp(message) ==
  Cat(Cat(Str(<<MLLP_START_BLOCK>>), message),
      Str(<<MLLP_END_BLOCK, MLLP_CARRIAGE_RETURN>>))

(***************************************************************************)
(* Text operations of the standard library, on run sequences.              *)
(***************************************************************************)
\* str::contains(char) and str::contains("\r\n").
ContainsByte(t, byte) == Position(t, byte) >= 0
ContainsCRLF(t) == WindowPosition(t, "\r", "\n") >= 0

\* str::starts_with(prefix).
StartsWith(t, prefix) == Take(t, ByteLen(prefix)) = prefix

\* str::split(char): the pieces of t between the occurrences of byte d (a run
\* of n copies of d ends one piece and yields n - 1 empty ones).
RECURSIVE Split(_, _)
Split(t, d) ==
  IF t = <<>> THEN << <<>> >>
  ELSE IF Len(t) = 1
       THEN IF t[1][1] = d THEN [i \in 1..(t[1][2] + 1) |-> <<>>] ELSE <<t>>
  ELSE LET left == Split(SubSeq(t, 1, Len(t) \div 2), d)
           right == Split(SubSeq(t, Len(t) \div 2 + 1, Len(t)), d)
       IN SubSeq(left, 1, Len(left) - 1)
          \o <<Cat(left[Len(left)], right[1])>>
          \o Tail(right)

\* str::split("\r\n").
RECURSIVE SplitCRLF(_)
SplitCRLF(t) ==
  LET at == WindowPosition(t, "\r", "\n") IN
  IF at < 0 THEN <<t>>
  ELSE <<Take(t, at)>> \o SplitCRLF(Drop(t, at + 2))

\* str::lines().next(): None ([some |-> FALSE]) for the empty string, else the
\* text before the first "\n" without one "\r" right before that "\n"; a text
\* with no "\n" is its own first line, a trailing "\r" kept.
FirstLine(t) ==
  IF t = <<>> THEN [some |-> FALSE, line |-> <<>>]
  ELSE LET nl == Position(t, "\n") IN
       IF nl < 0 THEN [some |-> TRUE, line |-> t]
       ELSE LET raw == Take(t, nl)
                n == ByteLen(raw)
            IN [some |-> TRUE,
                line |-> IF n > 0 /\ Drop(raw, n - 1) = Str(<<"\r">>)
                         THEN Take(raw, n - 1)
                         ELSE raw]

\* from_utf8_lossy in place of from_utf8: every payload becomes a string.
IsUtf8Lossy(bytes) == TRUE

\* std::str::from_utf8(bytes).is_ok(): the model's alphabet is ASCII and the
\* byte 0xFF, which no UTF-8 text holds.
IsUtf8(bytes) == ~ContainsByte(bytes, "0xFF")

(***************************************************************************)
(* HL7Error and Message::parse (src/src/lib.rs).  An error is [kind, msg]; *)
(* a parse result is [ok, message, error].                                 *)
(***************************************************************************)
InvalidStructure(msg) == [kind |-> "InvalidStructure", msg |-> msg]
MissingField(msg) == [kind |-> "MissingField", msg |-> msg]
ParseError(msg) == [kind |-> "ParseError", msg |-> msg]
NoError == [kind |-> "none", msg |-> ""]

\* HL7Error's Display (e.to_string()): the #[error(...)] prefix, then the text.
ErrorToString(e) ==
  Str(<<CASE e.kind = "ParseError" -> "Parse error: "
          [] e.kind = "InvalidStructure" -> "Invalid message structure: "
          [] OTHER -> "Missing required field: ",
        e.msg>>)

\* Delimiters::default().
DelimField == "|"
DelimComponent == "^"
DelimSubcomponent == "&"

\* parse_component.
parse_component(input) ==
  [value |-> input,
   subcomponents |-> IF ContainsByte(input, DelimSubcomponent)
                     THEN Split(input, DelimSubcomponent)
                     ELSE <<>>]

\* parse_field.
parse_field(input) ==
  [components |->
     IF ContainsByte(input, DelimComponent)
     THEN LET cs == Split(input, DelimComponent)
          IN [i \in 1..Len(cs) |-> parse_component(cs[i])]
     ELSE <<parse_component(input)>>]

\* parse_segment: the first part is the name, the others are the fields.
parse_segment(input) ==
  LET parts == Split(input, DelimField) IN
  [name |-> parts[1],
   fields |-> [i \in 1..(Len(parts) - 1) |-> parse_field(parts[i + 1])]]

\* msh.fields.iter().any(|f| f.components.iter().any(|c| c.value == text)).
AnyComponentIs(seg, text) ==
  \E i \in 1..Len(seg.fields) :
    \E j \in 1..Len(seg.fields[i].components) :
      seg.fields[i].components[j].value = text

\* extract_message_type: always Some, one of four literals.
extract_message_type(msh) ==
  IF AnyComponentIs(msh, Str(<<"A", "D", "T">>))
  THEN Str(<<"A", "D", "T", "^", "A", "0", "1">>)
  ELSE IF AnyComponentIs(msh, Str(<<"O", "R", "U">>))
  THEN Str(<<"O", "R", "U", "^", "R", "0", "1">>)
  ELSE IF AnyComponentIs(msh, Str(<<"R", "D", "E">>))
  THEN Str(<<"R", "D", "E", "^", "O", "1", "1">>)
  ELSE Str(<<"U", "N", "K", "N", "O", "W", "N">>)

\* extract_version: always Some("2.5").
extract_version(msh) == Str(<<"2", ".", "5">>)

NoMessage == [segments |-> <<>>, message_type |-> <<>>, version |-> <<>>]

\* Message::parse.
MessageParse(input) ==
  LET segments == IF ContainsCRLF(input) THEN SplitCRLF(input)
                  ELSE Split(input, "\n")
      msh == segments[1]
  IN IF ~StartsWith(msh, Str(<<"M", "S", "H">>))
     THEN [ok |-> FALSE, message |-> NoMessage,
           error |-> InvalidStructure("First segment must be MSH")]
     ELSE LET parsed_segments ==
                [i \in 1..Len(segments) |-> parse_segment(segments[i])]
              msh_segment == parsed_segments[1]
          IN [ok |-> TRUE,
              message |-> [segments |-> parsed_segments,
                           message_type |-> extract_message_type(msh_segment),
                           version |-> extract_version(msh_segment)],
              error |-> NoError]

(***************************************************************************)
(* The acknowledgment builders (src/src/mllp.rs).  now is the local time   *)
(* as %Y%m%d%H%M%S, one atom.                                              *)
(***************************************************************************)
AckHeader(now, control_id) ==
  Cat(Cat(Cat(Str(<<"MSH", "|", "^~\\&", "|", "RECEIVING_APP", "|",
                    "RECEIVING_FACILITY", "|", "SENDING_APP", "|",
                    "SENDING_FACILITY", "|">>),
              Str(<<now>>)),
          Cat(Str(<<"|", "|", "ACK", "|">>), control_id)),
      Str(<<"|", "P", "|", "2.5", "\r", "\n">>))

\* generate_response: the message is not read; the control id is the literal
\* MSG00001.
generate_response(message, now) ==
  Cat(Cat(AckHeader(now, Str(<<"M", "S", "G", "0", "0", "0", "0", "1">>)),
          Cat(Str(<<"MSA", "|", "AA", "|">>),
              Str(<<"M", "S", "G", "0", "0", "0", "0", "1">>))),
      Str(<<"|", "Message processed successfully">>))

\* The control id generate_nack finds: the 10th '|'-separated piece of the
\* first line, or UNKNOWN.
NackControlId(original_message) ==
  LET first == FirstLine(original_message) IN
  IF ~first.some THEN Str(<<"U", "N", "K", "N", "O", "W", "N">>)
  ELSE LET fields == Split(first.line, "|")
       IN IF Len(fields) >= 10 THEN fields[10]
          ELSE Str(<<"U", "N", "K", "N", "O", "W", "N">>)

\* generate_nack with the error text left out of the MSA segment.
generate_nack_without_reason(original_message, error_msg, now) ==
  LET control_id == NackControlId(original_message) IN
  Cat(Cat(AckHeader(now, control_id),
          Cat(Str(<<"MSA", "|", "AE", "|">>), control_id)),
      Str(<<"|", "Error processing message: ">>))

\* generate_nack.
generate_nack(original_message, error_msg, now) ==
  LET control_id == NackControlId(original_message) IN
  Cat(Cat(AckHeader(now, control_id),
          Cat(Str(<<"MSA", "|", "AE", "|">>), control_id)),
      Cat(Str(<<"|", "Error processing message: ">>), error_msg))

(***************************************************************************)
(* The injected handler: an opaque function from Message to                *)
(* Result<Message, HL7Error>.  choice is what it decides for this call:    *)
(* NoError for Ok (the message is handed back, as the server's own handler *)
(* does) or the error it returns.                                          *)
(***************************************************************************)
HandlerErrors == {ParseError("rejected by handler")}
HandlerChoices == {NoError} \cup HandlerErrors

handler(message, choice) ==
  IF choice = NoError
  THEN [ok |-> TRUE, message |-> message, error |-> NoError]
  ELSE [ok |-> FALSE, message |-> NoMessage, error |-> choice]

\* chrono::Local::now() formatted: the values the clock may show.
Clock == {"20230401123000"}

(***************************************************************************)
(* handle_connection, from a decoded payload to the frames it hands to     *)
(* write_all.  The result is [requests, frames]: requests holds the UTF-8  *)
(* payload (with what became of it) when there is one, frames the frames   *)
(* to write, in order.                                                     *)
(***************************************************************************)
Request(text, outcome, error) ==
  [text |-> text, outcome |-> outcome, error |-> error]

\* The loop answering a payload that is not UTF-8 with an AE acknowledgment.
ProcessPayloadAnsweringAll(message_bytes, choice, now) ==
  LET parsed == MessageParse(message_bytes) IN
  IF ~IsUtf8(message_bytes)
  THEN [requests |-> <<>>,
        frames |-> <<wrap_in_mllp(generate_nack(<<>>, Str(<<"not UTF-8">>), now))>>]
  ELSE IF parsed.ok /\ choice = NoError
  THEN [requests |-> <<Request(message_bytes, "ok", <<>>)>>,
        frames |-> <<wrap_in_mllp(generate_response(parsed.message, now))>>]
  ELSE LET e == IF parsed.ok THEN choice ELSE parsed.error IN
       [requests |-> <<Request(message_bytes,
                               IF parsed.ok THEN "handler_error" ELSE "parse_error",
                               ErrorToString(e))>>,
        frames |-> <<wrap_in_mllp(
                       generate_nack(message_bytes, ErrorToString(e), now))>>]

ProcessPayload(message_bytes, choice, now) ==
  IF ~IsUtf8(message_bytes)
  THEN \* warn!, continue
       [requests |-> <<>>, frames |-> <<>>]
  ELSE LET message_str == message_bytes
           parsed == MessageParse(message_str)
       IN IF parsed.ok
          THEN LET handled == handler(parsed.message, choice) IN
               IF handled.ok
               THEN [requests |-> <<Request(message_str, "ok", <<>>)>>,
                     frames |-> <<wrap_in_mllp(
                                    generate_response(handled.message, now))>>]
               ELSE [requests |-> <<Request(message_str, "handler_error",
                                            ErrorToString(handled.error))>>,
                     frames |-> <<wrap_in_mllp(
                                    generate_nack(message_str,
                                      ErrorToString(handled.error), now))>>]
          ELSE [requests |-> <<Request(message_str, "parse_error",
                                       ErrorToString(parsed.error))>>,
                frames |-> <<wrap_in_mllp(
                               generate_nack(message_str,
                                 ErrorToString(parsed.error), now))>>]

\* The error of a connection handed on to the accept loop, which stops.
SpawnedTaskEndsLoop(accept_loop, result) ==
  IF result \in {"io_error", "invalid_frame"} THEN "stopped" ELSE accept_loop

\* What the task spawned by MllpServer::run does with the result of
\* handle_connection: an error is logged, and the accept loop goes on.
SpawnedTaskEnds(accept_loop, result) == accept_loop

(***************************************************************************)
(* Bounds and inputs.                                                      *)
(***************************************************************************)
MaxConns == 2
MaxAcceptErrors == 1
MaxSplitRun == 9
MaxCodecOps == 2

Conns == 1..MaxConns

\* What a peer sends as one frame holding payload p.
Framed(p) ==
  Cat(Cat(Str(<<MLLP_START_BLOCK>>), p),
      Str(<<MLLP_END_BLOCK, MLLP_CARRIAGE_RETURN>>))

Filler(byte, n) == << <<byte, n>> >>

MsgWithControlId ==
  Str(<<"M", "S", "H", "|", "|", "|", "|", "|", "|", "|", "|", "|", "7">>)
MsgBare == Str(<<"M", "S", "H">>)
MsgNotMsh == Str(<<"F", "O", "O", "|", "b">>)
MsgNotUtf8 == Str(<<"M", "0xFF">>)
MsgWithCr == Str(<<"a", "\r", "b">>)

\* The byte streams one peer may send over its connection.
Streams ==
  { Framed(MsgWithControlId),
    Framed(MsgNotMsh),
    Framed(MsgNotUtf8),
    Framed(MsgWithCr),
    Cat(Framed(MsgNotMsh), Framed(MsgBare)),
    Cat(Framed(MsgBare), Framed(MsgNotMsh)),
    Cat(Framed(MsgNotUtf8), Framed(MsgBare)),
    Str(<<"n", MLLP_START_BLOCK, MLLP_START_BLOCK, "a", MLLP_END_BLOCK,
          MLLP_END_BLOCK, MLLP_CARRIAGE_RETURN, "z">>),
    Cat(Filler("x", MAX_BUFFER), Filler("y", 1)),
    Cat(Filler("x", MAX_BUFFER), Str(<<"y", MLLP_START_BLOCK, "a">>)),
    Framed(Filler("x", MAX_BUFFER - 2)),
    Framed(Cat(Filler("x", MAX_BUFFER - 2), Filler("y", 1))),
    Cat(Framed(MsgNotMsh), Cat(Filler("x", MAX_BUFFER), Filler("y", 1))) }

\* The streams of the runs with every connection in use.
SmallStreams ==
  { Framed(Str(<<"M">>)), Filler("x", MAX_BUFFER + 1) }

\* A peer: whether it connects, the bytes it sends, and whether they all
\* arrive before the task's first read (whole) or in any pieces.
NoPeer == [connects |-> FALSE, stream |-> <<>>, whole |-> TRUE]
Peer(stream, whole) == [connects |-> TRUE, stream |-> stream, whole |-> whole]

\* One peer on connection 1 sending any stream in any pieces, or a peer on
\* every connection, each sending a short stream that arrives whole.
Scenarios ==
  {[c \in Conns |-> IF c = 1 THEN Peer(s, FALSE) ELSE NoPeer] : s \in Streams}
  \cup {[c \in Conns |-> Peer(f[c], TRUE)] : f \in [Conns -> SmallStreams]}

\* The sizes one read may have: any number of bytes that ends the read at the
\* end of a run of the stream or inside a run of at most MaxSplitRun bytes.
ReadSizes(stream) ==
  {OffsetOfRun(stream, i + 1) : i \in 1..Len(stream)}
  \cup UNION {{OffsetOfRun(stream, i) + j : j \in 1..Min(stream[i][2], MaxSplitRun)}
              : i \in {r \in 1..Len(stream) : stream[r][2] <= MaxSplitRun}}

(***************************************************************************)
(* State.                                                                  *)
(***************************************************************************)
VARIABLES
  accept_loop,   \* MllpServer::run's loop: "accepting", or "stopped"
  accept_errors, \* how many listener.accept() calls failed
  peers,         \* what each connection's peer sends in all
  task,          \* per connection: "none" (not accepted), "read" (at read_buf),
                 \* "write" (at write_all), or how handle_connection returned:
                 \* "ok", "io_error", "invalid_frame"
  pending,       \* per connection: the bytes the peer has yet to deliver
  read_buffer,   \* per connection: read_buffer
  writing,       \* per connection: the frames handed to write_all, not yet written
  written,       \* per connection: the frames written, each with the number of
                 \* the request being answered when it was written
  payloads,      \* per connection: the payloads the decoder returned, in order
  requests,      \* per connection: the decoded UTF-8 payloads, in order
  reads,         \* per connection: how many reads delivered bytes
  last,          \* per connection: the last call of extract_mllp_message
  ended,         \* how many tasks have ended with an error
  epoch,         \* per connection: the value of ended when it was accepted
  cbuf,          \* the codec's buffer (src of decode, dst of encode)
  cops,          \* the codec calls made, in order
  psegs,         \* the segments of the payload handed to the parser
  pcalls         \* the calls of Message::parse and from_hl7 made, in order

serverVars == <<accept_loop, accept_errors, peers, task, pending, read_buffer,
                writing, written, payloads, requests, reads, last, ended, epoch>>
codecVars == <<cbuf, cops>>
parserVars == <<psegs, pcalls>>
vars == <<accept_loop, accept_errors, peers, task, pending, read_buffer,
          writing, written, payloads, requests, reads, last, ended, epoch,
          cbuf, cops, psegs, pcalls>>

NoCall == [kind |-> "nocall", before |-> <<>>, payload |-> <<>>, rest |-> <<>>]

ServerInit ==
  /\ accept_loop = "accepting"
  /\ accept_errors = 0
  /\ task = [c \in Conns |-> "none"]
  /\ pending = [c \in Conns |-> <<>>]
  /\ read_buffer = [c \in Conns |-> <<>>]
  /\ writing = [c \in Conns |-> <<>>]
  /\ written = [c \in Conns |-> <<>>]
  /\ payloads = [c \in Conns |-> <<>>]
  /\ requests = [c \in Conns |-> <<>>]
  /\ reads = [c \in Conns |-> 0]
  /\ last = [c \in Conns |-> NoCall]
  /\ ended = 0
  /\ epoch = [c \in Conns |-> 0]

Init ==
  /\ ServerInit
  /\ peers \in Scenarios
  /\ cbuf = <<>>
  /\ cops = <<>>
  /\ psegs = <<>>
  /\ pcalls = <<>>

(***************************************************************************)
(* MllpServer::run.                                                        *)
(***************************************************************************)
\* listener.accept() returns a socket; the connection's task is spawned.
Accept(c) ==
  /\ accept_loop = "accepting"
  /\ task[c] = "none"
  /\ peers[c].connects
  /\ task' = [task EXCEPT ![c] = "read"]
  /\ pending' = [pending EXCEPT ![c] = peers[c].stream]
  /\ epoch' = [epoch EXCEPT ![c] = ended]
  /\ UNCHANGED <<accept_loop, accept_errors, peers, read_buffer, writing,
                 written, payloads, requests, reads, last, ended, cbuf, cops, psegs, pcalls>>

\* listener.accept() fails: error!, continue.
AcceptFails ==
  /\ accept_loop = "accepting"
  /\ accept_errors < MaxAcceptErrors
  /\ accept_errors' = accept_errors + 1
  /\ UNCHANGED <<accept_loop, peers, task, pending, read_buffer, writing,
                 written, payloads, requests, reads, last, ended, epoch, cbuf,
                 cops, psegs, pcalls>>

(***************************************************************************)
(* handle_connection: one action per await.                                *)
(***************************************************************************)
\* read_buf delivers one of sizes bytes; the loop body runs up to its
\* write_all, or back to read_buf when it writes nothing.
ReadOf(c, sizes) ==
  /\ task[c] = "read"
  /\ pending[c] # <<>>
  /\ \E size \in sizes, choice \in HandlerChoices, now \in Clock :
       LET buffer == Cat(read_buffer[c], Take(pending[c], size))
           got == extract_mllp_message(buffer)
           done == ProcessPayload(got.payload, choice, now)
       IN /\ pending' = [pending EXCEPT ![c] = Drop(pending[c], size)]
          /\ read_buffer' = [read_buffer EXCEPT ![c] = got.rest]
          /\ reads' = [reads EXCEPT ![c] = @ + 1]
          /\ last' = [last EXCEPT ![c] =
                        [kind |-> got.kind, before |-> buffer,
                         payload |-> got.payload, rest |-> got.rest]]
          /\ IF got.kind = "invalid_frame"
             THEN /\ task' = [task EXCEPT ![c] = "invalid_frame"]
                  /\ accept_loop' = SpawnedTaskEnds(accept_loop, "invalid_frame")
                  /\ ended' = ended + 1
                  /\ UNCHANGED <<writing, payloads, requests>>
             ELSE IF got.kind = "none"
             THEN UNCHANGED <<task, accept_loop, ended, writing, payloads,
                              requests>>
             ELSE /\ payloads' = [payloads EXCEPT ![c] = Append(@, got.payload)]
                  /\ requests' = [requests EXCEPT ![c] = @ \o done.requests]
                  /\ writing' = [writing EXCEPT ![c] = done.frames]
                  /\ task' = [task EXCEPT ![c] =
                                IF done.frames = <<>> THEN "read" ELSE "write"]
                  /\ UNCHANGED <<accept_loop, ended>>
  /\ UNCHANGED <<accept_errors, peers, written, epoch, cbuf, cops, psegs, pcalls>>

Read(c) ==
  ReadOf(c, IF peers[c].whole THEN {ByteLen(pending[c])}
            ELSE ReadSizes(pending[c]))

\* The loop answering what is left in the buffer before it breaks at EOF.
ReadEofAnswersRest(c) ==
  /\ task[c] = "read"
  /\ pending[c] = <<>>
  /\ task' = [task EXCEPT ![c] = "ok"]
  /\ written' = [written EXCEPT ![c] =
                   IF read_buffer[c] = <<>> THEN @
                   ELSE Append(@, [frame |-> wrap_in_mllp(read_buffer[c]),
                                   answers |-> Len(requests[c])])]
  /\ accept_loop' = SpawnedTaskEnds(accept_loop, "ok")
  /\ UNCHANGED <<accept_errors, peers, pending, read_buffer, writing,
                 payloads, requests, reads, last, ended, epoch, cbuf, cops,
                 psegs, pcalls>>

\* read_buf returns 0: the peer has sent everything and closed.  break, Ok(()).
ReadEof(c) ==
  /\ task[c] = "read"
  /\ pending[c] = <<>>
  /\ task' = [task EXCEPT ![c] = "ok"]
  /\ accept_loop' = SpawnedTaskEnds(accept_loop, "ok")
  /\ UNCHANGED <<accept_errors, peers, pending, read_buffer, writing, written,
                 payloads, requests, reads, last, ended, epoch, cbuf, cops, psegs, pcalls>>

\* read_buf fails: the ? returns Err(IoError).
ReadFails(c) ==
  /\ task[c] = "read"
  /\ task' = [task EXCEPT ![c] = "io_error"]
  /\ accept_loop' = SpawnedTaskEnds(accept_loop, "io_error")
  /\ ended' = ended + 1
  /\ UNCHANGED <<accept_errors, peers, pending, read_buffer, writing, written,
                 payloads, requests, reads, last, epoch, cbuf, cops, psegs, pcalls>>

\* write_all completes: the frame is on the wire, and the loop reads again.
Write(c) ==
  /\ task[c] = "write"
  /\ written' = [written EXCEPT ![c] =
                   Append(@, [frame |-> Head(writing[c]),
                              answers |-> Len(requests[c])])]
  /\ writing' = [writing EXCEPT ![c] = Tail(@)]
  /\ task' = [task EXCEPT ![c] = IF Tail(writing[c]) = <<>> THEN "read" ELSE "write"]
  /\ UNCHANGED <<accept_loop, accept_errors, peers, pending, read_buffer,
                 payloads, requests, reads, last, ended, epoch, cbuf, cops, psegs, pcalls>>

\* write_all fails: the ? returns Err(IoError).
WriteFails(c) ==
  /\ task[c] = "write"
  /\ task' = [task EXCEPT ![c] = "io_error"]
  /\ accept_loop' = SpawnedTaskEnds(accept_loop, "io_error")
  /\ ended' = ended + 1
  /\ UNCHANGED <<accept_errors, peers, pending, read_buffer, writing, written,
                 payloads, requests, reads, last, epoch, cbuf, cops, psegs, pcalls>>

Next ==
  \/ \E c \in Conns : Accept(c)
  \/ AcceptFails
  \/ \E c \in Conns : Read(c)
  \/ \E c \in Conns : ReadEof(c)
  \/ \E c \in Conns : ReadFails(c)
  \/ \E c \in Conns : Write(c)
  \/ \E c \in Conns : WriteFails(c)

Spec == Init /\ [][Next]_vars

\* Spec with the runtime's progress: a read on a socket the peer has closed
\* returns, and a write_all returns (with Ok or with Err).
SpecLive ==
  /\ Spec
  /\ \A c \in Conns : WF_vars(ReadEof(c))
  /\ \A c \in Conns : WF_vars(Write(c) \/ WriteFails(c))

(***************************************************************************)
(* The codec on its own: MllpCodec::encode, MllpCodec::decode and          *)
(* extract_mllp_message applied, in any order, to a buffer that starts as  *)
(* one of CodecBuffers.                                                    *)
(***************************************************************************)
CodecPayloads ==
  { <<>>,
    Str(<<"a">>),
    Str(<<MLLP_CARRIAGE_RETURN>>),
    Str(<<MLLP_END_BLOCK>>),
    Str(<<"a", MLLP_END_BLOCK>>),
    Str(<<MLLP_START_BLOCK, "a">>),
    Str(<<"a", MLLP_CARRIAGE_RETURN, "b", MLLP_END_BLOCK, "c">>),
    Str(<<MLLP_END_BLOCK, MLLP_CARRIAGE_RETURN>>),
    Str(<<"a", MLLP_END_BLOCK, MLLP_CARRIAGE_RETURN, "b">>),
    Filler("x", MAX_BUFFER + 1) }

CodecBuffers ==
  { <<>>,
    Str(<<"n">>),
    Str(<<"n", "m", MLLP_START_BLOCK, "a">>),
    Str(<<MLLP_START_BLOCK, "a", MLLP_END_BLOCK>>),
    Str(<<MLLP_START_BLOCK, MLLP_END_BLOCK, MLLP_CARRIAGE_RETURN>>),
    Str(<<MLLP_END_BLOCK, MLLP_CARRIAGE_RETURN, MLLP_START_BLOCK, "a">>),
    Str(<<MLLP_START_BLOCK, "a", MLLP_END_BLOCK, MLLP_CARRIAGE_RETURN, "z",
          MLLP_START_BLOCK, "b", MLLP_END_BLOCK, MLLP_CARRIAGE_RETURN>>),
    Str(<<"n", MLLP_START_BLOCK, MLLP_START_BLOCK, "a", MLLP_CARRIAGE_RETURN,
          MLLP_END_BLOCK, MLLP_END_BLOCK, MLLP_CARRIAGE_RETURN, "z",
          MLLP_START_BLOCK, "b", MLLP_END_BLOCK, MLLP_CARRIAGE_RETURN>>),
    Filler("x", MAX_BUFFER),
    Filler("x", MAX_BUFFER + 1),
    Cat(Filler("x", MAX_BUFFER), Str(<<MLLP_START_BLOCK>>)),
    Cat(Filler("x", MAX_BUFFER + 1), Str(<<MLLP_START_BLOCK, "a">>)),
    Cat(Str(<<MLLP_START_BLOCK>>), Filler("x", MAX_BUFFER - 1)),
    Cat(Str(<<MLLP_START_BLOCK>>), Filler("x", MAX_BUFFER)),
    Cat(Str(<<"n", MLLP_START_BLOCK>>), Filler("x", MAX_BUFFER)),
    Cat(Str(<<"n", MLLP_START_BLOCK>>), Filler("x", MAX_BUFFER - 1)),
    Cat(Framed(Filler("x", MAX_BUFFER)), Str(<<"z">>)) }

CodecInit ==
  /\ ServerInit
  /\ peers = [c \in Conns |-> NoPeer]
  /\ cbuf \in CodecBuffers
  /\ cops = <<>>
  /\ psegs = <<>>
  /\ pcalls = <<>>

CodecCall(op, item, before, kind, payload, rest) ==
  [op |-> op, item |-> item, before |-> before, kind |-> kind,
   payload |-> payload, rest |-> rest]

\* codec.encode(item, &mut cbuf)
CodecEncode ==
  /\ Len(cops) < MaxCodecOps
  /\ \E item \in CodecPayloads :
       /\ cbuf' = encode(item, cbuf)
       /\ cops' = Append(cops, CodecCall("encode", item, cbuf, "ok", <<>>,
                                         encode(item, cbuf)))
  /\ UNCHANGED serverVars
  /\ UNCHANGED parserVars

\* codec.decode(&mut cbuf)
CodecDecode ==
  /\ Len(cops) < MaxCodecOps
  /\ LET got == decode(cbuf) IN
       /\ cbuf' = got.rest
       /\ cops' = Append(cops, CodecCall("decode", <<>>, cbuf, got.kind,
                                         got.payload, got.rest))
  /\ UNCHANGED serverVars
  /\ UNCHANGED parserVars

\* extract_mllp_message(&mut cbuf)
CodecExtract ==
  /\ Len(cops) < MaxCodecOps
  /\ LET got == extract_mllp_message(cbuf) IN
       /\ cbuf' = got.rest
       /\ cops' = Append(cops, CodecCall("extract", <<>>, cbuf, got.kind,
                                         got.payload, got.rest))
  /\ UNCHANGED serverVars
  /\ UNCHANGED parserVars

CodecNext == CodecEncode \/ CodecDecode \/ CodecExtract

SpecCodec == CodecInit /\ [][CodecNext]_vars

(***************************************************************************)
(* Properties of the codec (checked under SpecCodec).                      *)
(***************************************************************************)
\* s holds an FS immediately followed by a CR.
HasEndSequence(s) ==
  \E i \in 1..(Len(s) - 1) : s[i][1] = "FS" /\ s[i + 1][1] = "\r"

HasStartBlock(s) == \E i \in 1..Len(s) : s[i][1] = "VT"

\* s holds a VT and, somewhere after its first VT, an FS followed by a CR.
HasFrame(s) ==
  \E i \in 1..Len(s) :
    /\ s[i][1] = "VT"
    /\ \E j \in (i + 1)..(Len(s) - 1) : s[j][1] = "FS" /\ s[j + 1][1] = "\r"

FirstByteIs(s, byte) == s # <<>> /\ s[1][1] = byte
LastByteIs(s, byte) == s # <<>> /\ s[Len(s)][1] = byte
EndsWithEndSequence(s) ==
  /\ Len(s) >= 2
  /\ s[Len(s) - 1][1] = "FS"
  /\ s[Len(s)] = <<"\r", 1>>

\* The calls of the decoder made so far (either copy of it).
DecoderCalls == {i \in 1..Len(cops) : cops[i].op \in {"decode", "extract"}}

\* C1: a payload with no FS+CR in it, encoded into an empty buffer and then
\* decoded from that buffer, comes back as it was.
C1_RoundTrip ==
  \A i \in 1..(Len(cops) - 1) :
    ( /\ cops[i].op = "encode"
      /\ cops[i].before = <<>>
      /\ ~HasEndSequence(cops[i].item)
      /\ cops[i + 1].op = "decode" )
    => /\ cops[i + 1].kind = "some"
       /\ cops[i + 1].payload = cops[i].item

\* A round trip of a payload that holds a VT, or one that ends with an FS.
C1_Witness ==
  \E i \in 1..(Len(cops) - 1) :
    /\ cops[i].op = "encode"
    /\ cops[i].before = <<>>
    /\ cops[i].item = Str(<<"a", "FS">>)
    /\ cops[i + 1].op = "decode"
    /\ cops[i + 1].kind = "some"

\* C2: called on a buffer that holds a frame, the decoder returns the bytes
\* strictly between the first VT and the first FS+CR after it, and leaves in
\* the buffer exactly the bytes after that FS+CR: the buffer was
\* noise, VT, payload, FS, CR, rest with no VT in noise and no FS+CR in
\* payload, FS.
C2_Decomposes(call) ==
  LET noise_len == ByteLen(call.before)
                   - (ByteLen(call.payload) + ByteLen(call.rest) + 3)
      noise == Take(call.before, noise_len)
  IN /\ call.kind = "some"
     /\ noise_len >= 0
     /\ ~HasStartBlock(noise)
     /\ ~HasEndSequence(Cat(call.payload, Str(<<"FS">>)))
     /\ call.before =
          Cat(noise, Cat(Str(<<"VT">>),
                         Cat(call.payload, Cat(Str(<<"FS", "\r">>), call.rest))))

C2_FrameExtracted ==
  \A i \in DecoderCalls : HasFrame(cops[i].before) => C2_Decomposes(cops[i])

\* A frame behind noise, with a second VT, a CR and a lone FS in its payload,
\* and bytes after it.
C2_Witness ==
  \E i \in DecoderCalls :
    /\ cops[i].before =
         Str(<<"n", "VT", "VT", "a", "\r", "FS", "FS", "\r", "z", "VT", "b",
               "FS", "\r">>)
    /\ cops[i].payload = Str(<<"VT", "a", "\r", "FS">>)
    /\ cops[i].rest = Str(<<"z", "VT", "b", "FS", "\r">>)

\* C3 as stated: no returned payload begins with VT or ends with FS or FS+CR.
C3_AsStated ==
  \A i \in DecoderCalls :
    cops[i].kind = "some"
    => /\ ~FirstByteIs(cops[i].payload, "VT")
       /\ ~LastByteIs(cops[i].payload, "FS")
       /\ ~EndsWithEndSequence(cops[i].payload)

\* C3, amended: no returned payload holds an FS immediately followed by a CR
\* (so none ends with FS+CR); it may begin with VT and may end with FS.
C3_NoEndSequenceInPayload ==
  \A i \in DecoderCalls :
    cops[i].kind = "some" => ~HasEndSequence(cops[i].payload)

\* A returned payload that begins with VT and ends with FS, taken from a buffer
\* that holds two end sequences.
C3_Witness ==
  \E i \in DecoderCalls :
    /\ cops[i].kind = "some"
    /\ FirstByteIs(cops[i].payload, "VT")
    /\ LastByteIs(cops[i].payload, "FS")
    /\ HasEndSequence(cops[i].rest)

\* The bytes of s from its first VT on; all of s when it holds no VT.
FromStartBlock(s) ==
  IF HasStartBlock(s)
  THEN SubSeq(s, CHOOSE i \in 1..Len(s) :
                   s[i][1] = "VT" /\ \A j \in 1..(i - 1) : s[j][1] # "VT",
              Len(s))
  ELSE s

\* C4 as stated: called on more than 100,000 bytes that hold no frame, the
\* decoder fails with an invalid-frame error.
C4_AsStated ==
  \A i \in DecoderCalls :
    (ByteLen(cops[i].before) > 100000 /\ ~HasFrame(cops[i].before))
    => cops[i].kind = "invalid_frame"

\* C4, amended: called on a buffer that holds no frame, the decoder fails with
\* an invalid-frame error exactly when more than 100,000 bytes are left once
\* the bytes before the first VT are dropped (all of them count when there is
\* no VT); otherwise it reports that more data is needed.
C4_BoundAfterDiscard ==
  \A i \in DecoderCalls :
    ~HasFrame(cops[i].before)
    => IF ByteLen(FromStartBlock(cops[i].before)) > 100000
       THEN cops[i].kind = "invalid_frame"
       ELSE cops[i].kind = "none"

\* An invalid-frame error for an unfinished frame of 100,001 bytes behind one
\* byte of noise.
C4_Witness ==
  \E i \in DecoderCalls :
    /\ cops[i].before = Cat(Str(<<"n", "VT">>), Filler("x", 100000))
    /\ cops[i].kind = "invalid_frame"

(***************************************************************************)
(* Properties of the connection loop (checked under Spec).                 *)
(***************************************************************************)
\* The payload of a stream that is one frame: the bytes between its first
\* byte and its last two.
FramePayload(stream) == Slice(stream, 1, ByteLen(stream) - 2)

\* stream is a single well-formed frame: VT, a payload with no FS+CR in it,
\* FS, CR.
IsSingleFrame(stream) ==
  /\ ByteLen(stream) >= 3
  /\ ~HasEndSequence(FramePayload(stream))
  /\ stream = Cat(Cat(Str(<<"VT">>), FramePayload(stream)), Str(<<"FS", "\r">>))

\* What C5 says of connection c, whose peer sends one frame: more-data-needed
\* (and nothing decoded or written) as long as bytes are outstanding, one
\* payload once they are all read, and one acknowledgment once it is written.
\* A failed read or write ends the task and is not what the claim is about.
C5_OneFrame(c) ==
  /\ task[c] # "invalid_frame"
  /\ (task[c] # "none" /\ pending[c] # <<>>)
     => /\ last[c].kind \in {"nocall", "none"}
        /\ payloads[c] = <<>>
        /\ writing[c] = <<>>
        /\ written[c] = <<>>
  /\ (task[c] # "none" /\ pending[c] = <<>>)
     => /\ last[c].kind = "some"
        /\ payloads[c] = <<FramePayload(peers[c].stream)>>
        /\ Len(written[c]) + Len(writing[c]) = 1
        /\ task[c] \in {"read", "ok"} => Len(written[c]) = 1

\* C5 as stated: any single well-formed frame.
C5_AsStated ==
  \A c \in Conns :
    (peers[c].connects /\ IsSingleFrame(peers[c].stream)) => C5_OneFrame(c)

\* C5, amended: a single well-formed frame of at most 100,001 bytes whose
\* payload is valid UTF-8.
C5_SplitFrame ==
  \A c \in Conns :
    ( /\ peers[c].connects
      /\ IsSingleFrame(peers[c].stream)
      /\ ByteLen(peers[c].stream) <= MAX_BUFFER + 1
      /\ IsUtf8(FramePayload(peers[c].stream)) )
    => C5_OneFrame(c)

\* A frame of 100,001 bytes that took three reads or more, acknowledged once.
C5_Witness ==
  \E c \in Conns :
    /\ IsSingleFrame(peers[c].stream)
    /\ ByteLen(peers[c].stream) = MAX_BUFFER + 1
    /\ reads[c] >= 3
    /\ task[c] = "read"
    /\ Len(written[c]) = 1

\* The acknowledgment inside a written frame, its two lines and their
\* '|'-separated pieces (piece 1 is the segment name).
AckText(frame) == Slice(frame, 1, ByteLen(frame) - 2)
AckPiece(frame, line, n) ==
  LET pieces == Split(SplitCRLF(AckText(frame))[line], "|") IN
  IF n <= Len(pieces) THEN pieces[n] ELSE <<>>
AckCode(frame) == AckPiece(frame, 2, 2)
EndsWith(text, suffix) ==
  /\ ByteLen(text) >= ByteLen(suffix)
  /\ Drop(text, ByteLen(text) - ByteLen(suffix)) = suffix

\* C6: on every connection the i-th frame written answers the i-th decoded
\* UTF-8 payload (AA when it was handled, AE when it was not), and nothing is
\* written for a payload not decoded yet.
C6_PairedInOrder ==
  \A c \in Conns :
    /\ Len(written[c]) + Len(writing[c]) <= Len(requests[c])
    /\ \A i \in 1..Len(written[c]) :
         /\ written[c][i].answers = i
         /\ AckCode(written[c][i].frame) =
              IF requests[c][i].outcome = "ok" THEN Str(<<"AA">>) ELSE Str(<<"AE">>)

\* Two requests answered in order, the first refused and the second accepted.
C6_Witness ==
  \E c \in Conns :
    /\ Len(written[c]) = 2
    /\ requests[c][1].outcome = "parse_error"
    /\ requests[c][2].outcome = "ok"
    /\ AckCode(written[c][2].frame) = Str(<<"AA">>)

\* The frame is an AE acknowledgment whose MSA text ends with the error string
\* of the request.
IsErrorAckFor(frame, request) ==
  /\ AckCode(frame) = Str(<<"AE">>)
  /\ EndsWith(AckPiece(frame, 2, 4), request.error)
  /\ request.outcome = "parse_error"
     => EndsWith(AckPiece(frame, 2, 4), Str(<<"First segment must be MSH">>))

C7_State ==
  \A c \in Conns :
    /\ \A i \in 1..Len(written[c]) :
         (i <= Len(requests[c]) /\ requests[c][i].outcome # "ok")
         => /\ written[c][i].answers = i
            /\ IsErrorAckFor(written[c][i].frame, requests[c][i])
    /\ task[c] \notin {"write", "io_error"} => Len(written[c]) = Len(requests[c])

C7_Step ==
  \A c \in Conns :
    ( /\ task[c] = "write"
      /\ requests[c] # <<>>
      /\ requests[c][Len(requests[c])].outcome # "ok"
      /\ written'[c] # written[c] )
    => /\ task'[c] = "read"
       /\ Len(written'[c]) = Len(written[c]) + 1

\* C7: a payload that does not parse, or that the handler refuses, is answered
\* with exactly one AE acknowledgment carrying the error string, and the task
\* is back at its read once that frame is written.
C7_ErrorAnswered == []C7_State /\ [][C7_Step]_vars

\* A request refused for its first segment and answered AE, and a later frame
\* of the same connection answered too.
C7_Witness ==
  \E c \in Conns :
    /\ Len(written[c]) = 2
    /\ requests[c][1].outcome = "parse_error"
    /\ IsErrorAckFor(written[c][1].frame, requests[c][1])
    /\ written[c][2].answers = 2

C8_State ==
  /\ accept_loop = "accepting"
  /\ \A d \in Conns : (task[d] = "none" /\ peers[d].connects) => ENABLED Accept(d)

C8_Step ==
  \A c \in Conns :
    (task[c] \in {"read", "write"} /\ task'[c] \in {"io_error", "invalid_frame"})
    => /\ accept_loop' = "accepting"
       /\ \A d \in Conns \ {c} :
            /\ task'[d] = task[d]
            /\ pending'[d] = pending[d]
            /\ read_buffer'[d] = read_buffer[d]
            /\ writing'[d] = writing[d]
            /\ written'[d] = written[d]

\* C8: a connection ending with an invalid-frame or I/O error changes nothing
\* of any other connection, and the accept loop goes on accepting.
C8_ErrorsStayLocal == []C8_State /\ [][C8_Step]_vars

\* One connection ended by an invalid frame, another ended by an I/O error, and
\* a connection accepted after a failure has been answered.
C8_Witness ==
  \E c, d \in Conns :
    /\ task[c] = "invalid_frame"
    /\ epoch[d] >= 1
    /\ Len(written[d]) = 1

\* The control id C9 names: the 10th '|'-separated piece of the first line of
\* the payload, or UNKNOWN.
C9_ControlId(text) ==
  LET line == FirstLine(text)
      pieces == Split(line.line, "|")
  IN IF line.some /\ Len(pieces) >= 10 THEN pieces[10]
     ELSE Str(<<"U", "N", "K", "N", "O", "W", "N">>)

\* C9 as stated: a handled request is answered AA, and every acknowledgment
\* carries in MSH.10 and MSA.2 the control id of the request it answers.
C9_AsStated ==
  \A c \in Conns :
    \A i \in 1..Len(written[c]) :
      LET frame == written[c][i].frame
          request == requests[c][written[c][i].answers]
      IN /\ request.outcome = "ok" => AckCode(frame) = Str(<<"AA">>)
         /\ AckPiece(frame, 1, 10) = C9_ControlId(request.text)
         /\ AckPiece(frame, 2, 3) = C9_ControlId(request.text)

\* C10 as stated: a task that is to read again holds at most 100,000 bytes.
C10_AsStated ==
  \A c \in Conns :
    task[c] \in {"read", "write"} => ByteLen(read_buffer[c]) <= MAX_BUFFER

(***************************************************************************)
(* A peer that pipelines: it sends frames two at a time, and every read    *)
(* delivers what fits the buffer's initial capacity, two frames.           *)
(***************************************************************************)
INITIAL_CAPACITY == 4096

RECURSIVE Repeat(_, _)
Repeat(bytes, n) ==
  IF n = 0 THEN <<>>
  ELSE IF n = 1 THEN bytes
  ELSE Cat(Repeat(bytes, n \div 2), Repeat(bytes, n - n \div 2))

PipelinedFrame == Framed(Filler("x", INITIAL_CAPACITY \div 2 - 3))
PipelinedStream ==
  Repeat(PipelinedFrame, 2 * (MAX_BUFFER \div (INITIAL_CAPACITY \div 2) + 1))

PacedInit ==
  /\ ServerInit
  /\ peers = [c \in Conns |-> IF c = 1 THEN Peer(PipelinedStream, FALSE) ELSE NoPeer]
  /\ cbuf = <<>>
  /\ cops = <<>>
  /\ psegs = <<>>
  /\ pcalls = <<>>

PacedRead(c) ==
  ReadOf(c, {Min(INITIAL_CAPACITY, ByteLen(pending[c]))})

PacedNext ==
  \/ \E c \in Conns : Accept(c)
  \/ AcceptFails
  \/ \E c \in Conns : PacedRead(c)
  \/ \E c \in Conns : ReadEof(c)
  \/ \E c \in Conns : ReadFails(c)
  \/ \E c \in Conns : Write(c)
  \/ \E c \in Conns : WriteFails(c)

SpecPaced == PacedInit /\ [][PacedNext]_vars

(***************************************************************************)
(* Payloads that are not UTF-8 (Spec).                                     *)
(***************************************************************************)
C11_NotUtf8(p) == ContainsByte(p, "0xFF")

\* The strings handed to the parser are exactly the UTF-8 payloads, in order,
\* and no frame is written or waiting to be written beyond one per string.
C11_State ==
  \A c \in Conns :
    LET texts == SelectSeq(payloads[c], LAMBDA p : ~C11_NotUtf8(p)) IN
    /\ Len(requests[c]) = Len(texts)
    /\ \A i \in 1..Len(texts) : requests[c][i].text = texts[i]
    /\ Len(written[c]) + Len(writing[c]) <= Len(texts)

\* The read that decodes a payload that is not UTF-8 leaves the task at its
\* read, with nothing parsed and nothing to write, and the loop accepting.
C11_Step ==
  \A c \in Conns :
    ( /\ Len(payloads'[c]) = Len(payloads[c]) + 1
      /\ C11_NotUtf8(payloads'[c][Len(payloads'[c])]) )
    => /\ task'[c] = "read"
       /\ requests'[c] = requests[c]
       /\ writing'[c] = writing[c]
       /\ written'[c] = written[c]
       /\ accept_loop' = accept_loop

\* C11: a decoded payload that is not valid UTF-8 gets no response and is not
\* handed to the parser or the handler; the task goes back to reading, and a
\* later frame is answered as usual.
C11_SkipsNotUtf8 == []C11_State /\ [][C11_Step]_vars

\* A payload that is not UTF-8 followed by one that is: two payloads decoded,
\* one request, one acknowledgment, the task reading.
C11_Witness ==
  \E c \in Conns :
    /\ Len(payloads[c]) = 2
    /\ C11_NotUtf8(payloads[c][1])
    /\ Len(requests[c]) = 1
    /\ Len(written[c]) = 1
    /\ written[c][1].answers = 1
    /\ task[c] = "read"

(***************************************************************************)
(* The end of a connection task (SpecLive).                                *)
(***************************************************************************)
Ended(c) == task[c] \in {"ok", "io_error", "invalid_frame"}

C12_Step ==
  \A c \in Conns :
    \* Ok(()) comes from a zero-byte read only, and writes nothing more
    /\ (task[c] # "ok" /\ task'[c] = "ok")
       => /\ task[c] = "read"
          /\ pending[c] = <<>>
          /\ writing[c] = <<>>
          /\ written'[c] = written[c]
    \* Err(IoError) comes from a read or a write, and writes nothing more
    /\ (task[c] # "io_error" /\ task'[c] = "io_error")
       => /\ task[c] \in {"read", "write"}
          /\ written'[c] = written[c]
    \* a task that has ended does nothing
    /\ Ended(c)
       => /\ task'[c] = task[c]
          /\ written'[c] = written[c]
          /\ read_buffer'[c] = read_buffer[c]

\* C12: once the peer has sent everything and closed, the task ends: a
\* zero-byte read ends it with Ok(()) and writes no further response, whatever
\* is left in the buffer, a failed read or write ends it with an error, and a
\* task that has ended writes nothing.
C12_TaskTerminates ==
  /\ [][C12_Step]_vars
  /\ \A c \in Conns :
       (task[c] \in {"read", "write"} /\ pending[c] = <<>>) ~> Ended(c)

\* A task ended by EOF with bytes left in its buffer and one response written.
C12_Witness ==
  \E c \in Conns :
    /\ task[c] = "ok"
    /\ read_buffer[c] # <<>>
    /\ Len(written[c]) = 1

(***************************************************************************)
(* What a call that needs more data leaves in the buffer (SpecCodec).      *)
(***************************************************************************)
\* C13: when the decoder reports more-data-needed on a buffer of at most
\* 100,000 bytes, a buffer with no VT is left as it was, and a buffer with a
\* VT loses the bytes before its first VT and nothing else.
C13_NoneKeepsFromStartBlock ==
  \A i \in DecoderCalls :
    (cops[i].kind = "none" /\ ByteLen(cops[i].before) <= MAX_BUFFER)
    => IF HasStartBlock(cops[i].before)
       THEN /\ cops[i].rest = FromStartBlock(cops[i].before)
            /\ FirstByteIs(cops[i].rest, "VT")
       ELSE cops[i].rest = cops[i].before

\* Noise and an unfinished frame: the noise goes, the frame's start stays, and
\* a second call on what is left changes nothing.
C13_Witness ==
  \E i, j \in DecoderCalls :
    /\ cops[i].kind = "none"
    /\ cops[i].before = Str(<<"n", "m", "VT", "a">>)
    /\ cops[i].rest = Str(<<"VT", "a">>)
    /\ cops[j].kind = "none"
    /\ cops[j].before = cops[i].rest
    /\ cops[j].rest = cops[j].before

(***************************************************************************)
(* Message's accessors and AdtMessage::from_hl7 (src/src/lib.rs).  An      *)
(* Option is [some, value]; a from_hl7 result is [ok, adt, error].         *)
(***************************************************************************)
None == [some |-> FALSE, value |-> <<>>]
Some(value) == [some |-> TRUE, value |-> value]

\* Message::is_adt.
is_adt(message) == StartsWith(message.message_type, Str(<<"A", "D", "T">>))

\* Message::get_segment: the first segment of that name.
get_segment(message, name) ==
  LET hits == {i \in 1..Len(message.segments) : message.segments[i].name = name}
  IN IF hits = {} THEN None
     ELSE Some(message.segments[CHOOSE i \in hits : \A j \in hits : i <= j])

\* fields.get(index).and_then(|f| f.components.first()).map(|c| c.value.clone()),
\* index counted from 0.
FirstComponentValue(segment, index) ==
  IF index + 1 <= Len(segment.fields)
     /\ Len(segment.fields[index + 1].components) >= 1
  THEN Some(segment.fields[index + 1].components[1].value)
  ELSE None

NoAdt ==
  [message_type |-> <<>>, patient_id |-> <<>>, patient_name |-> None,
   date_of_birth |-> None, gender |-> None, event_type |-> <<>>]

\* AdtMessage::from_hl7.
AdtMessage_from_hl7(message) ==
  IF ~is_adt(message)
  THEN [ok |-> FALSE, adt |-> NoAdt,
        error |-> InvalidStructure("Not an ADT message")]
  ELSE
    LET message_type == message.message_type
        pieces == Split(message_type, "^")
        event_type == IF Len(pieces) >= 2 THEN pieces[2]
                      ELSE Str(<<"U", "N", "K", "N", "O", "W", "N">>)
        pid == get_segment(message, Str(<<"P", "I", "D">>))
        patient_id == FirstComponentValue(pid.value, 2)
    IN IF ~pid.some
       THEN [ok |-> FALSE, adt |-> NoAdt,
             error |-> MissingField("PID segment")]
       ELSE IF ~patient_id.some
       THEN [ok |-> FALSE, adt |-> NoAdt,
             error |-> MissingField("Patient ID (PID.3)")]
       ELSE [ok |-> TRUE,
             adt |-> [message_type |-> message_type,
                      patient_id |-> patient_id.value,
                      patient_name |->
                        Some(Str(<<"D", "O", "E", "^", "J", "O", "H", "N",
                                   "^", "^", "^", "^">>)),
                      date_of_birth |-> FirstComponentValue(pid.value, 6),
                      gender |-> FirstComponentValue(pid.value, 7),
                      event_type |-> event_type],
             error |-> NoError]

\* Message::get_segments: every segment of that name, in document order.
get_segments(message, name) ==
  SelectSeq(message.segments, LAMBDA segment : segment.name = name)

\* Message::is_oru.
is_oru(message) == StartsWith(message.message_type, Str(<<"O", "R", "U">>))

\* Message::is_rde.
is_rde(message) == StartsWith(message.message_type, Str(<<"R", "D", "E">>))

\* fields.get(index).and_then(|f| f.components.get(1)).map(|c| c.value.clone()),
\* index counted from 0.
SecondComponentValue(segment, index) ==
  IF index + 1 <= Len(segment.fields)
     /\ Len(segment.fields[index + 1].components) >= 2
  THEN Some(segment.fields[index + 1].components[2].value)
  ELSE None

\* option.and_then(|s| s.fields.get(index)).and_then(|f| f.components.first())
\*   .map(|c| c.value.clone())
OptionFirstComponentValue(option, index) ==
  IF option.some THEN FirstComponentValue(option.value, index) ELSE None

\* The body of the loop over the OBX segments: test_id is still an Option
\* here, the ? on it is applied by OruMessage_from_hl7.
ObservationOf(obx) ==
  [test_id |-> FirstComponentValue(obx, 2),
   test_name |-> SecondComponentValue(obx, 2),
   value |-> FirstComponentValue(obx, 4),
   units |-> FirstComponentValue(obx, 5),
   reference_range |-> FirstComponentValue(obx, 6),
   abnormal_flags |-> FirstComponentValue(obx, 7)]

NoOru == [message_type |-> <<>>, patient_id |-> <<>>, observations |-> <<>>]

\* The loop with an OBX segment that has no test id left out, where the
\* source returns the error.
ObservationsSkippingBad(obx_segments) ==
  LET good == SelectSeq(obx_segments,
                        LAMBDA obx : FirstComponentValue(obx, 2).some)
  IN [ok |-> TRUE,
      observations |->
        [i \in 1..Len(good) |->
           [ObservationOf(good[i]) EXCEPT !.test_id = @.value]]]

\* The loop over the OBX segments: the first segment without a test id ends
\* the call with the error, otherwise one Observation is pushed per segment.
Observations(obx_segments) ==
  IF \E i \in 1..Len(obx_segments) : ~ObservationOf(obx_segments[i]).test_id.some
  THEN [ok |-> FALSE, observations |-> <<>>]
  ELSE [ok |-> TRUE,
        observations |->
          [i \in 1..Len(obx_segments) |->
             [ObservationOf(obx_segments[i]) EXCEPT !.test_id = @.value]]]

\* OruMessage::from_hl7.
OruMessage_from_hl7(message) ==
  IF ~is_oru(message)
  THEN [ok |-> FALSE, oru |-> NoOru,
        error |-> InvalidStructure("Not an ORU message")]
  ELSE
    LET message_type == message.message_type
        pid == get_segment(message, Str(<<"P", "I", "D">>))
        patient_id == FirstComponentValue(pid.value, 2)
        obx_segments == get_segments(message, Str(<<"O", "B", "X">>))
        looped == Observations(obx_segments)
    IN IF ~pid.some
       THEN [ok |-> FALSE, oru |-> NoOru,
             error |-> MissingField("PID segment")]
       ELSE IF ~patient_id.some
       THEN [ok |-> FALSE, oru |-> NoOru,
             error |-> MissingField("Patient ID (PID.3)")]
       ELSE IF ~looped.ok
       THEN [ok |-> FALSE, oru |-> NoOru,
             error |-> MissingField("Test ID (OBX.3)")]
       ELSE [ok |-> TRUE,
             oru |-> [message_type |-> message_type,
                      patient_id |-> patient_id.value,
                      observations |-> looped.observations],
             error |-> NoError]

\* The decimal digits of n, as format!("{}", n) writes them.
RECURSIVE ToDecimal(_)
ToDecimal(n) ==
  LET digit == <<"0", "1", "2", "3", "4", "5", "6", "7", "8", "9">>[(n % 10) + 1]
  IN IF n < 10 THEN Str(<<digit>>)
     ELSE Cat(ToDecimal(n \div 10), Str(<<digit>>))

\* The route taken from the first RXR segment whatever the order's index.
RouteOfFirstRxr(message, i) ==
  OptionFirstComponentValue(get_segment(message, Str(<<"R", "X", "R">>)), 2)

\* message.get_segments("RXR").get(i), then its third field's first
\* component; i counted from 0.
RouteOf(message, i) ==
  LET rxrs == get_segments(message, Str(<<"R", "X", "R">>))
      rxr == IF i + 1 <= Len(rxrs) THEN Some(rxrs[i + 1]) ELSE None
  IN OptionFirstComponentValue(rxr, 2)

\* The body of the loop over the RXE segments, i counted from 0.
MedicationOrderOf(message, rxe, i) ==
  LET medication_id == FirstComponentValue(rxe, 0)
  IN [rx_id |-> Cat(Str(<<"R", "X">>), ToDecimal(i + 1)),
      medication_id |-> IF medication_id.some THEN medication_id.value
                        ELSE Str(<<"U", "N", "K", "N", "O", "W", "N">>),
      medication_name |-> SecondComponentValue(rxe, 0),
      strength |-> FirstComponentValue(rxe, 2),
      form |-> FirstComponentValue(rxe, 4),
      dosage |-> FirstComponentValue(rxe, 9),
      frequency |-> FirstComponentValue(rxe, 5),
      quantity |-> FirstComponentValue(rxe, 9),
      route |-> RouteOf(message, i),
      start_date |-> FirstComponentValue(rxe, 19),
      stop_date |-> FirstComponentValue(rxe, 20)]

NoRde ==
  [message_type |-> <<>>, patient_id |-> <<>>, order_control |-> None,
   order_number |-> None, medication_orders |-> <<>>]

\* RdeMessage::from_hl7.
RdeMessage_from_hl7(message) ==
  IF ~is_rde(message)
  THEN [ok |-> FALSE, rde |-> NoRde,
        error |-> InvalidStructure("Not an RDE message")]
  ELSE
    LET message_type == message.message_type
        pid == get_segment(message, Str(<<"P", "I", "D">>))
        patient_id == FirstComponentValue(pid.value, 2)
        orc == get_segment(message, Str(<<"O", "R", "C">>))
        rxe_segments == get_segments(message, Str(<<"R", "X", "E">>))
    IN IF ~pid.some
       THEN [ok |-> FALSE, rde |-> NoRde,
             error |-> MissingField("PID segment")]
       ELSE IF ~patient_id.some
       THEN [ok |-> FALSE, rde |-> NoRde,
             error |-> MissingField("Patient ID (PID.3)")]
       ELSE [ok |-> TRUE,
             rde |-> [message_type |-> message_type,
                      patient_id |-> patient_id.value,
                      order_control |-> OptionFirstComponentValue(orc, 0),
                      order_number |-> OptionFirstComponentValue(orc, 1),
                      medication_orders |->
                        [n \in 1..Len(rxe_segments) |->
                           MedicationOrderOf(message, rxe_segments[n], n - 1)]],
             error |-> NoError]

(***************************************************************************)
(* Callers of the parser: a payload is a sequence of segments, joined by   *)
(* one separator, handed to Message::parse; a parsed Message may then be   *)
(* handed to AdtMessage::from_hl7.                                         *)
(***************************************************************************)
MaxParserOps == 2

\* MSH|^~\&|S|F|R|G|2023||ADT^A01|M1|P|2.5
MshAdt ==
  Str(<<"M", "S", "H", "|", "^", "~", "\\", "&", "|", "S", "|", "F", "|",
        "R", "|", "G", "|", "2", "0", "2", "3", "|", "|", "A", "D", "T", "^",
        "A", "0", "1", "|", "M", "1", "|", "P", "|", "2", ".", "5">>)

\* MSH|^~\&|S|F|R|G|2023||ADT^A04|M1|P|2.3
MshAdtA04 ==
  Str(<<"M", "S", "H", "|", "^", "~", "\\", "&", "|", "S", "|", "F", "|",
        "R", "|", "G", "|", "2", "0", "2", "3", "|", "|", "A", "D", "T", "^",
        "A", "0", "4", "|", "M", "1", "|", "P", "|", "2", ".", "3">>)

\* MSH|^~\&|S|F|R|G|2023||ORU^R01|M2|P|2.5
MshOru ==
  Str(<<"M", "S", "H", "|", "^", "~", "\\", "&", "|", "S", "|", "F", "|",
        "R", "|", "G", "|", "2", "0", "2", "3", "|", "|", "O", "R", "U", "^",
        "R", "0", "1", "|", "M", "2", "|", "P", "|", "2", ".", "5">>)

\* MSH|^~\&|S|F|R|G|2023|||M1|P|
MshNoType ==
  Str(<<"M", "S", "H", "|", "^", "~", "\\", "&", "|", "S", "|", "F", "|",
        "R", "|", "G", "|", "2", "0", "2", "3", "|", "|", "|", "M", "1", "|",
        "P", "|">>)

\* MSH|^~\&
MshShort ==
  Str(<<"M", "S", "H", "|", "^", "~", "\\", "&">>)

\* MSHX|^~\&|S|F|R|G|2023||ADT^A01|M1|P|2.5
MshX ==
  Str(<<"M", "S", "H", "X", "|", "^", "~", "\\", "&", "|", "S", "|", "F",
        "|", "R", "|", "G", "|", "2", "0", "2", "3", "|", "|", "A", "D", "T",
        "^", "A", "0", "1", "|", "M", "1", "|", "P", "|", "2", ".", "5">>)

\* PID|1||12345^^^MRN||SMITH^ANN||19800101|F
PidFull ==
  Str(<<"P", "I", "D", "|", "1", "|", "|", "1", "2", "3", "4", "5", "^", "^",
        "^", "M", "R", "N", "|", "|", "S", "M", "I", "T", "H", "^", "A", "N",
        "N", "|", "|", "1", "9", "8", "0", "0", "1", "0", "1", "|", "F">>)

\* PID|1||12345
PidNoName ==
  Str(<<"P", "I", "D", "|", "1", "|", "|", "1", "2", "3", "4", "5">>)

\* PID|1||
PidEmptyId ==
  Str(<<"P", "I", "D", "|", "1", "|", "|">>)

\* PID|1
PidShort ==
  Str(<<"P", "I", "D", "|", "1">>)

\* zz|1
LowerSeg ==
  Str(<<"z", "z", "|", "1">>)

\* MSH|^~\&|S|F|R|G|2023||RDE^O11|M3|P|2.5
MshRde ==
  Str(<<"M", "S", "H", "|", "^", "~", "\\", "&", "|", "S", "|", "F", "|", "R",
        "|", "G", "|", "2", "0", "2", "3", "|", "|", "R", "D", "E", "^", "O",
        "1", "1", "|", "M", "3", "|", "P", "|", "2", ".", "5">>)

\* OBX|1|NM|WBC^LEUKOCYTES^L||10.5|10*3/uL|4.0-11.0|N
ObxWbc ==
  Str(<<"O", "B", "X", "|", "1", "|", "N", "M", "|", "W", "B", "C", "^", "L",
        "E", "U", "K", "O", "C", "Y", "T", "E", "S", "^", "L", "|", "|", "1",
        "0", ".", "5", "|", "1", "0", "*", "3", "/", "u", "L", "|", "4", ".",
        "0", "-", "1", "1", ".", "0", "|", "N">>)

\* OBX|2|NM|RBC^ERYTHROCYTES||4.5
ObxRbc ==
  Str(<<"O", "B", "X", "|", "2", "|", "N", "M", "|", "R", "B", "C", "^", "E",
        "R", "Y", "T", "H", "R", "O", "C", "Y", "T", "E", "S", "|", "|", "4",
        ".", "5">>)

\* OBX|3|NM|
ObxEmptyId ==
  Str(<<"O", "B", "X", "|", "3", "|", "N", "M", "|">>)

\* OBX|4|NM
ObxShort ==
  Str(<<"O", "B", "X", "|", "4", "|", "N", "M">>)

\* ORC|NW|ORD1
Orc ==
  Str(<<"O", "R", "C", "|", "N", "W", "|", "O", "R", "D", "1">>)

\* RXE|509^MEDROL|2|4MG||TAB|BID||509^MEDROL|10|||||||||||20230401|20230407
RxeMedrol ==
  Str(<<"R", "X", "E", "|", "5", "0", "9", "^", "M", "E", "D", "R", "O", "L",
        "|", "2", "|", "4", "M", "G", "|", "|", "T", "A", "B", "|", "B", "I",
        "D", "|", "|", "5", "0", "9", "^", "M", "E", "D", "R", "O", "L", "|",
        "1", "0", "|", "|", "|", "|", "|", "|", "|", "|", "|", "|", "|", "2",
        "0", "2", "3", "0", "4", "0", "1", "|", "2", "0", "2", "3", "0", "4",
        "0", "7">>)

\* RXE|123^AMOX|3|500MG||CAP|TID
RxeAmox ==
  Str(<<"R", "X", "E", "|", "1", "2", "3", "^", "A", "M", "O", "X", "|", "3",
        "|", "5", "0", "0", "M", "G", "|", "|", "C", "A", "P", "|", "T", "I",
        "D">>)

\* RXE
RxeBare ==
  Str(<<"R", "X", "E">>)

\* RXR|PO|ORAL|SWALLOW
RxrOral ==
  Str(<<"R", "X", "R", "|", "P", "O", "|", "O", "R", "A", "L", "|", "S", "W",
        "A", "L", "L", "O", "W">>)

\* RXR|IV|VEIN|INJECT
RxrVein ==
  Str(<<"R", "X", "R", "|", "I", "V", "|", "V", "E", "I", "N", "|", "I", "N",
        "J", "E", "C", "T">>)

\* RXR|PO
RxrShort ==
  Str(<<"R", "X", "R", "|", "P", "O">>)

\* So many RXE segments that the order numbers reach two digits.
ManyOrders == 11

\* The payloads: lists of segments; an empty last segment is a payload that
\* ends with a separator.
ParserPayloads ==
  { <<MshAdt, PidFull>>,
    <<MshAdt, PidNoName>>,
    <<MshAdt, PidEmptyId>>,
    <<MshAdt, PidShort>>,
    <<MshAdt>>,
    <<MshAdt, PidFull, <<>> >>,
    <<MshAdt, LowerSeg, PidFull>>,
    <<MshAdtA04, PidFull>>,
    <<MshOru, PidFull>>,
    <<MshOru, PidFull, ObxWbc, ObxRbc>>,
    <<MshOru, PidFull, ObxRbc, ObxEmptyId, ObxWbc>>,
    <<MshOru, PidFull, ObxWbc, ObxShort, ObxRbc>>,
    <<MshOru, ObxWbc>>,
    <<MshOru, PidShort, ObxWbc>>,
    <<MshRde, PidFull, Orc, RxeMedrol, RxrOral, RxeAmox, RxrVein>>,
    <<MshRde, PidFull, RxeMedrol, RxeAmox, RxrVein>>,
    <<MshRde, PidFull, RxrOral, RxrVein, RxeAmox>>,
    <<MshRde, PidFull, Orc, RxeMedrol, RxrShort>>,
    <<MshRde, PidFull, Orc>>,
    <<MshRde, RxeMedrol, RxrOral>>,
    <<MshRde, PidNoName, RxrVein>> \o [n \in 1..ManyOrders |-> RxeBare],
    <<MshNoType, PidFull>>,
    <<MshShort>>,
    <<MshX, PidFull>>,
    <<PidFull, MshAdt>> }

\* CR (the HL7 segment separator), LF and CR LF.
Separators == {Str(<<"\r">>), Str(<<"\n">>), Str(<<"\r", "\n">>)}

\* The segments with sep between them.
RECURSIVE Join(_, _)
Join(segs, sep) ==
  IF Len(segs) = 1 THEN segs[1]
  ELSE Cat(Cat(segs[1], sep), Join(Tail(segs), sep))

NoAdtResult == [ok |-> FALSE, adt |-> NoAdt, error |-> NoError]
NoOruResult == [ok |-> FALSE, oru |-> NoOru, error |-> NoError]
NoRdeResult == [ok |-> FALSE, rde |-> NoRde, error |-> NoError]

ParserInit ==
  /\ ServerInit
  /\ peers = [c \in Conns |-> NoPeer]
  /\ cbuf = <<>>
  /\ cops = <<>>
  /\ psegs \in ParserPayloads
  /\ pcalls = <<>>

\* Message::parse(&input)
ParseCall ==
  /\ Len(pcalls) < MaxParserOps
  /\ \E sep \in Separators :
       LET input == Join(psegs, sep) IN
       pcalls' = Append(pcalls, [op |-> "parse", sep |-> sep, input |-> input,
                                parsed |-> MessageParse(input),
                                adt |-> NoAdtResult, oru |-> NoOruResult,
                                rde |-> NoRdeResult])
  /\ UNCHANGED <<psegs, cbuf, cops>>
  /\ UNCHANGED serverVars

\* AdtMessage::from_hl7(&message), message the last one parsed
AdtCall ==
  /\ Len(pcalls) < MaxParserOps
  /\ pcalls # <<>>
  /\ LET prev == pcalls[Len(pcalls)] IN
       /\ prev.op = "parse"
       /\ prev.parsed.ok
       /\ pcalls' = Append(pcalls, [prev EXCEPT
                                      !.op = "adt",
                                      !.adt = AdtMessage_from_hl7(prev.parsed.message)])
  /\ UNCHANGED <<psegs, cbuf, cops>>
  /\ UNCHANGED serverVars

\* OruMessage::from_hl7(&message), message the last one parsed
OruCall ==
  /\ Len(pcalls) < MaxParserOps
  /\ pcalls # <<>>
  /\ LET prev == pcalls[Len(pcalls)] IN
       /\ prev.op = "parse"
       /\ prev.parsed.ok
       /\ pcalls' = Append(pcalls, [prev EXCEPT
                                      !.op = "oru",
                                      !.oru = OruMessage_from_hl7(prev.parsed.message)])
  /\ UNCHANGED <<psegs, cbuf, cops>>
  /\ UNCHANGED serverVars

\* RdeMessage::from_hl7(&message), message the last one parsed
RdeCall ==
  /\ Len(pcalls) < MaxParserOps
  /\ pcalls # <<>>
  /\ LET prev == pcalls[Len(pcalls)] IN
       /\ prev.op = "parse"
       /\ prev.parsed.ok
       /\ pcalls' = Append(pcalls, [prev EXCEPT
                                      !.op = "rde",
                                      !.rde = RdeMessage_from_hl7(prev.parsed.message)])
  /\ UNCHANGED <<psegs, cbuf, cops>>
  /\ UNCHANGED serverVars

ParserNext == ParseCall \/ AdtCall \/ OruCall \/ RdeCall

SpecParser == ParserInit /\ [][ParserNext]_vars

(***************************************************************************)
(* Properties of the parser (SpecParser).  The payload's own segments and  *)
(* fields are read from psegs, not from what the parser returned.          *)
(***************************************************************************)
ParseCalls == {i \in 1..Len(pcalls) : pcalls[i].op = "parse"}
AdtCalls == {i \in 1..Len(pcalls) : pcalls[i].op = "adt"}

\* The call's payload had LF or CR LF between its segments.
WithLineFeeds(call) == call.sep # Str(<<"\r">>)

\* Field n of a segment, counted as HL7 counts the fields of the segment kind:
\* in MSH the separator itself is field 1, so field n is piece n; in any other
\* segment field n is piece n + 1.  <<>> when the segment has no such field.
RawField(seg, n) ==
  LET pieces == Split(seg, "|")
      at == IF pieces[1] = Str(<<"M", "S", "H">>) THEN n ELSE n + 1
  IN IF at <= Len(pieces) THEN pieces[at] ELSE <<>>

HasField(seg, n) ==
  LET pieces == Split(seg, "|") IN
  (IF pieces[1] = Str(<<"M", "S", "H">>) THEN n ELSE n + 1) <= Len(pieces)

\* The payload's PID segments.
PidSegments ==
  {i \in 1..Len(psegs) : Split(psegs[i], "|")[1] = Str(<<"P", "I", "D">>)}
FirstPid == psegs[CHOOSE i \in PidSegments : \A j \in PidSegments : i <= j]

\* C14 as stated: a Message returned by Message::parse has at least one
\* segment, the first one named exactly MSH, and a non-empty message_type and
\* version.
C14_AsStated ==
  \A i \in ParseCalls :
    pcalls[i].parsed.ok
    => LET m == pcalls[i].parsed.message IN
       /\ Len(m.segments) >= 1
       /\ m.segments[1].name = Str(<<"M", "S", "H">>)
       /\ m.message_type # <<>>
       /\ m.version # <<>>

\* C15 as stated: the payload with CR between its segments and the payload
\* with LF between them both parse or both fail, and parse to equal Messages.
C15_AsStated ==
  \A i, j \in ParseCalls :
    (pcalls[i].sep = Str(<<"\r">>) /\ pcalls[j].sep = Str(<<"\n">>))
    => /\ pcalls[i].parsed.ok = pcalls[j].parsed.ok
       /\ pcalls[i].parsed.ok
          => pcalls[i].parsed.message = pcalls[j].parsed.message

\* C16 as stated: message_type is the raw MSH.9 and version the raw MSH.12 of
\* an accepted payload.
C16_AsStated ==
  \A i \in ParseCalls :
    ( /\ WithLineFeeds(pcalls[i])
      /\ pcalls[i].parsed.ok
      /\ RawField(psegs[1], 9) # <<>>
      /\ RawField(psegs[1], 12) # <<>> )
    => /\ pcalls[i].parsed.message.message_type = RawField(psegs[1], 9)
       /\ pcalls[i].parsed.message.version = RawField(psegs[1], 12)

\* C17 as stated: an MSH segment whose field 9 or field 12 is missing or
\* empty is refused with a missing-field error.
C17_AsStated ==
  \A i \in ParseCalls :
    ( /\ WithLineFeeds(pcalls[i])
      /\ Split(psegs[1], "|")[1] = Str(<<"M", "S", "H">>)
      /\ (RawField(psegs[1], 9) = <<>> \/ RawField(psegs[1], 12) = <<>>) )
    => /\ ~pcalls[i].parsed.ok
       /\ pcalls[i].parsed.error.kind = "MissingField"

\* Three characters, each a capital letter or a digit.
IsSegmentName(name) ==
  /\ ByteLen(name) = 3
  /\ \A r \in 1..Len(name) :
       name[r][1] \in {"A", "B", "C", "D", "E", "F", "G", "H", "I", "J", "K",
                       "L", "M", "N", "O", "P", "Q", "R", "S", "T", "U", "V",
                       "W", "X", "Y", "Z", "0", "1", "2", "3", "4", "5", "6",
                       "7", "8", "9"}

\* C18 as stated: every segment of a returned Message has a name of three
\* characters from A-Z and 0-9 (so no empty name after a trailing separator).
C18_AsStated ==
  \A i \in ParseCalls :
    pcalls[i].parsed.ok
    => \A k \in 1..Len(pcalls[i].parsed.message.segments) :
         IsSegmentName(pcalls[i].parsed.message.segments[k].name)

\* C19 as stated: from_hl7 on an ADT message fails with a missing-field error
\* when there is no PID segment or its field 3 is missing or empty, and never
\* returns an empty patient_id.
C19_AsStated ==
  \A i \in AdtCalls :
    (WithLineFeeds(pcalls[i]) /\ is_adt(pcalls[i].parsed.message))
    => /\ pcalls[i].adt.ok => pcalls[i].adt.adt.patient_id # <<>>
       /\ (PidSegments = {} \/ RawField(FirstPid, 3) = <<>>)
          => /\ ~pcalls[i].adt.ok
             /\ pcalls[i].adt.error.kind = "MissingField"

\* C20 as stated: patient_name is the raw PID.5 when the PID segment has a
\* field 5, and absent when it has none.
C20_AsStated ==
  \A i \in AdtCalls :
    (WithLineFeeds(pcalls[i]) /\ pcalls[i].adt.ok /\ PidSegments # {})
    => pcalls[i].adt.adt.patient_name =
         IF HasField(FirstPid, 5) THEN Some(RawField(FirstPid, 5)) ELSE None

(***************************************************************************)
(* Properties of the ORU and RDE projections.  They are stated on the      *)
(* Message handed to from_hl7: its segments by name and position.          *)
(***************************************************************************)
OruCalls == {i \in 1..Len(pcalls) : pcalls[i].op = "oru"}
RdeCalls == {i \in 1..Len(pcalls) : pcalls[i].op = "rde"}

\* The positions of the message's segments of that name.
SegmentsNamed(message, name) ==
  {i \in 1..Len(message.segments) : message.segments[i].name = name}

\* The n-th segment of that name, n from 1.
NthNamed(message, name, n) ==
  LET at == SegmentsNamed(message, name) IN
  message.segments[CHOOSE i \in at : Cardinality({j \in at : j <= i}) = n]

\* The message has a PID segment and the first one has a field 3.
HasPatientId(message) ==
  /\ SegmentsNamed(message, Str(<<"P", "I", "D">>)) # {}
  /\ Len(NthNamed(message, Str(<<"P", "I", "D">>), 1).fields) >= 3

\* The first component of field n of a segment, n from 1; absent when the
\* segment has fewer than n fields.
FieldOf(segment, n) ==
  IF Len(segment.fields) >= n
  THEN Some(segment.fields[n].components[1].value) ELSE None

\* "RX" followed by the number, for the numbers the payloads reach.
RxNumbered(i) ==
  Cat(Str(<<"R", "X">>),
      <<Str(<<"1">>), Str(<<"2">>), Str(<<"3">>), Str(<<"4">>), Str(<<"5">>),
        Str(<<"6">>), Str(<<"7">>), Str(<<"8">>), Str(<<"9">>),
        Str(<<"1", "0">>), Str(<<"1", "1">>), Str(<<"1", "2">>),
        Str(<<"1", "3">>)>>[i])

\* C21: RdeMessage::from_hl7 on an RDE message with a patient id returns one
\* MedicationOrder per RXE segment, in document order (the i-th order carries
\* the i-th RXE segment's medication id and strength); the i-th has rx_id
\* "RX" followed by i and its route from the i-th RXR segment of the message
\* (that segment's third field), and no route when the message has fewer than
\* i RXR segments.
C21_OneOrderPerRxe ==
  \A k \in RdeCalls :
    LET message == pcalls[k].parsed.message
        result == pcalls[k].rde
        orders == result.rde.medication_orders
        rxe == Str(<<"R", "X", "E">>)
        rxr == Str(<<"R", "X", "R">>)
    IN (StartsWith(message.message_type, Str(<<"R", "D", "E">>))
        /\ HasPatientId(message))
       => /\ result.ok
          /\ Len(orders) = Cardinality(SegmentsNamed(message, rxe))
          /\ \A i \in 1..Len(orders) :
               /\ orders[i].rx_id = RxNumbered(i)
               /\ orders[i].medication_id =
                    IF FieldOf(NthNamed(message, rxe, i), 1).some
                    THEN FieldOf(NthNamed(message, rxe, i), 1).value
                    ELSE Str(<<"U", "N", "K", "N", "O", "W", "N">>)
               /\ orders[i].strength = FieldOf(NthNamed(message, rxe, i), 3)
               /\ orders[i].route =
                    IF i <= Cardinality(SegmentsNamed(message, rxr))
                    THEN FieldOf(NthNamed(message, rxr, i), 3)
                    ELSE None

\* Two RXE segments and one RXR segment, which follows the second RXE: the
\* first order has its route, the second has none.
C21_Witness ==
  \E k \in RdeCalls :
    /\ pcalls[k].rde.ok
    /\ Len(pcalls[k].rde.rde.medication_orders) = 2
    /\ pcalls[k].rde.rde.medication_orders[1].route =
         Some(Str(<<"I", "N", "J", "E", "C", "T">>))
    /\ pcalls[k].rde.rde.medication_orders[2].route = None
    /\ pcalls[k].rde.rde.medication_orders[2].rx_id = Str(<<"R", "X", "2">>)

\* C22: OruMessage::from_hl7 on an ORU message with a patient id returns one
\* Observation per OBX segment, in document order, the i-th with the first
\* component of the i-th OBX segment's field 3 as test_id; when some OBX
\* segment has no field 3 it returns a missing-field error and no OruMessage.
C22_OneObservationPerObx ==
  \A k \in OruCalls :
    LET message == pcalls[k].parsed.message
        result == pcalls[k].oru
        observations == result.oru.observations
        obx == Str(<<"O", "B", "X">>)
        count == Cardinality(SegmentsNamed(message, obx))
    IN (StartsWith(message.message_type, Str(<<"O", "R", "U">>))
        /\ HasPatientId(message))
       => IF \E i \in 1..count : Len(NthNamed(message, obx, i).fields) < 3
          THEN /\ ~result.ok
               /\ result.error.kind = "MissingField"
               /\ result.oru = NoOru
          ELSE /\ result.ok
               /\ Len(observations) = count
               /\ \A i \in 1..count :
                    observations[i].test_id =
                      FieldOf(NthNamed(message, obx, i), 3).value

\* Three OBX segments, the second with an empty field 3: three Observations
\* in the segments' order.
C22_Witness ==
  \E k \in OruCalls :
    /\ pcalls[k].oru.ok
    /\ Len(pcalls[k].oru.oru.observations) = 3
    /\ pcalls[k].oru.oru.observations[1].test_id = Str(<<"R", "B", "C">>)
    /\ pcalls[k].oru.oru.observations[2].test_id = <<>>
    /\ pcalls[k].oru.oru.observations[3].test_id = Str(<<"W", "B", "C">>)

(***************************************************************************)
(* Properties of the connection task's framing across reads.               *)
(***************************************************************************)

\* The task is about to read and the peer has nothing more to send: unless
\* the peer closes, the task stays here.
WaitsForInput(c) == task[c] = "read" /\ pending[c] = <<>>

\* The buffer holds a complete frame whose payload is UTF-8.
HoldsUnansweredFrame(c) ==
  LET got == extract_mllp_message(read_buffer[c]) IN
  got.kind = "some" /\ IsUtf8(got.payload)

\* C23 as stated: every complete frame read into the buffer is answered
\* before the task waits for more input, so a task waiting on a peer that
\* sends nothing more holds no complete frame with a UTF-8 payload.
C23_AsStated ==
  \A c \in Conns : WaitsForInput(c) => ~HoldsUnansweredFrame(c)

\* The outcome of framing on a connection: the payloads decoded, and whether
\* the task ended with the invalid-frame error.
FramingOutcome(c) ==
  [payloads |-> payloads[c], invalid_frame |-> task[c] = "invalid_frame"]

\* The outcome when the whole stream arrives in one read and the peer then
\* closes: one call of the decoder on the stream.
OutcomeOfOneRead(stream) ==
  LET got == extract_mllp_message(stream) IN
  [payloads |-> IF got.kind = "some" THEN <<got.payload>> ELSE <<>>,
   invalid_frame |-> got.kind = "invalid_frame"]

\* C24 as stated: the outcome of framing is the same for every way of
\* splitting the stream into reads, so on every connection that ended at the
\* end of the stream or with the invalid-frame error it is the outcome of
\* the split that delivers the stream in one read.
C24_AsStated ==
  \A c \in Conns :
    (peers[c].connects /\ task[c] \in {"ok", "invalid_frame"})
    => FramingOutcome(c) = OutcomeOfOneRead(peers[c].stream)

====
